---------------------------- MODULE Spec2Model ----------------------------
(***************************************************************************)
(* A model of ypath / ptgrep: the prototxt stream splitter (pb_utils.py),  *)
(* the prototxt codec (quick_prototxt.py), the YPath evaluator (ypath.py)  *)
(* and the grep pipeline (ptgrep.py).                                      *)
(*                                                                         *)
(* Text is a sequence of one-character strings.  Every component has its   *)
(* own specification over its own variables; the variables of the other    *)
(* components stay at their idle values.                                   *)
(***************************************************************************)
EXTENDS Integers, Sequences, FiniteSets, TLC

VARIABLES
    \* ---- StreamReader (pb_utils.py) ----
    stream,     \* the characters of the underlying text stream
    spos,       \* how many characters of the stream readline() has consumed
    buf,        \* self.buf: the characters written to the StringIO
    bufpos,     \* self.buf.tell()
    states,     \* self.states: the continuation stack, top last
    yielded,    \* the blocks __iter__ has yielded, with the stream span of each
    rstate,     \* "reading", "done" or the exception that ended the iteration
    \* ---- prototxt codec (quick_prototxt.py) ----
    chist,      \* the artifacts of a chain of dump_prototxt / load_prototxt calls:
                \* the argument of the first call, then each call's result
    \* ---- YPath evaluation (ypath.py) ----
    edoc,       \* the Document Value handed to collect
    equery,     \* the parsed YPath
    ewith,      \* with_name
    eres,       \* what collect handed back: nothing yet, a list, or an exception
    \* ---- ptgrep main (ptgrep.py) ----
    blocks,     \* the blocks the StreamReader is going to yield
    bidx,       \* how many blocks the for loop has taken
    mpath,      \* path: the YPath parsed from the command line
    delimiter,  \* delimiter: the text written after each match
    written,    \* what was written to the output, per block
    mstate,     \* "running", "done" or the exception that ended main
    \* ---- YPath parsing (ypath.py) ----
    ptext,      \* the text handed to parse
    prule,      \* the grammar rule (class) whose parse is called
    pfull,      \* full
    pres        \* what parse handed back: nothing yet, a length with the
                \* parsed object, or a YPathSyntaxError

readerVars == <<stream, spos, buf, bufpos, states, yielded, rstate>>
codecVars == <<chist>>

evalVars == <<edoc, equery, ewith, eres>>
mainVars == <<blocks, bidx, mpath, delimiter, written, mstate>>
parseVars == <<ptext, prule, pfull, pres>>
vars == <<stream, spos, buf, bufpos, states, yielded, rstate, chist,
          edoc, equery, ewith, eres, blocks, bidx, mpath, delimiter, written, mstate,
          ptext, prule, pfull, pres>>

-----------------------------------------------------------------------------
(* Bounds *)

MaxLen == 4
    \* characters in the input stream
MaxLines == 3
    \* lines of a prototxt text handed to load_prototxt
MaxList == 2
    \* elements of a list-valued field handed to dump_prototxt

-----------------------------------------------------------------------------
(* Characters *)

NL == "\n"
Chars == {"a", " ", NL, "{", "}", "\"", "'", "#", "\\"}
Whitespace == {" ", NL}

Texts(n) == UNION {[1..k -> Chars] : k \in 0..n}

\* str.strip() leaves something
HasContent(text) == \E i \in 1..Len(text) : text[i] \notin Whitespace

-----------------------------------------------------------------------------
(* StreamReader: the trampolined scanning functions *)

BlockFrame(depth) ==
    [func |-> "_read_block", depth |-> depth, quote |-> "", escaped |-> FALSE]
QuoteFrame(quote, escaped) ==
    [func |-> "_read_quoted_string", depth |-> 0, quote |-> quote, escaped |-> escaped]
CommentFrame ==
    [func |-> "_read_comment", depth |-> 0, quote |-> "", escaped |-> FALSE]

\* What a scanning function hands back: its return value, buf.tell() after it,
\* and the frames it appended to self.states.
Result(ret, pos, push) == [ret |-> ret, pos |-> pos, push |-> push]

\* the `while True` loop of _read_block, from buffer position pos
RECURSIVE read_block_loop(_, _, _)
read_block_loop(b, pos, depth) ==
    IF pos >= Len(b)
    THEN Result("None", pos, <<BlockFrame(depth)>>)
    ELSE LET char == b[pos + 1] IN
         IF char = "\"" \/ char = "'"
         THEN Result("Ellipsis", pos + 1, <<BlockFrame(depth), QuoteFrame(char, FALSE)>>)
         ELSE IF char = "#"
         THEN Result("Ellipsis", pos + 1, <<BlockFrame(depth), CommentFrame>>)
         ELSE IF char = NL
         THEN IF depth = 0
              THEN Result("newline", pos + 1, <<>>)
              ELSE read_block_loop(b, pos + 1, depth)
         ELSE IF char = "{"
         THEN read_block_loop(b, pos + 1, depth + 1)
         ELSE IF char = "}"
         THEN IF depth = 0
              THEN Result("ValueError", pos + 1, <<>>)
              ELSE read_block_loop(b, pos + 1, depth - 1)
         ELSE read_block_loop(b, pos + 1, depth)

\* _read_block: a sub-state that consumed the newline makes it read it again
read_block(b, pos, sub_state, depth) ==
    read_block_loop(b, IF sub_state = "newline" THEN pos - 1 ELSE pos, depth)

RECURSIVE read_quoted_string(_, _, _, _)
read_quoted_string(b, pos, quote, escaped) ==
    IF pos >= Len(b)
    THEN Result("None", pos, <<QuoteFrame(quote, escaped)>>)
    ELSE LET char == b[pos + 1] IN
         IF escaped
         THEN read_quoted_string(b, pos + 1, quote, FALSE)
         ELSE IF char = "\\"
         THEN read_quoted_string(b, pos + 1, quote, TRUE)
         ELSE IF char = quote
         THEN Result("dict", pos + 1, <<>>)
         ELSE read_quoted_string(b, pos + 1, quote, FALSE)

\* buf.readline(): up to and including the next newline, or to the end
RECURSIVE LineEnd(_, _)
LineEnd(b, pos) ==
    IF pos >= Len(b) THEN pos
    ELSE IF b[pos + 1] = NL THEN pos + 1
    ELSE LineEnd(b, pos + 1)

read_comment(b, pos) ==
    LET e == LineEnd(b, pos) IN
    IF e > pos /\ b[e] = NL
    THEN Result("newline", e, <<>>)
    ELSE Result("None", e, <<CommentFrame>>)

CallFrame(f, b, pos, sub_state) ==
    IF f.func = "_read_block" THEN read_block(b, pos, sub_state, f.depth)
    ELSE IF f.func = "_read_quoted_string" THEN read_quoted_string(b, pos, f.quote, f.escaped)
    ELSE read_comment(b, pos)

\* the `while self.states` loop of read_one over the line just written:
\* "else" when the stack ran empty, "break" when a function returned None
RECURSIVE RunStates(_, _, _, _)
RunStates(st, b, pos, sub_state) ==
    IF st = <<>>
    THEN [exit |-> "else", states |-> st, pos |-> pos, sub_state |-> sub_state]
    ELSE LET f == st[Len(st)]
             r == CallFrame(f, b, pos, sub_state)
             st1 == SubSeq(st, 1, Len(st) - 1) \o r.push
         IN  IF r.ret = "None"
             THEN [exit |-> "break", states |-> st1, pos |-> r.pos, sub_state |-> "None"]
             ELSE IF r.ret = "ValueError"
             THEN [exit |-> "ValueError", states |-> st1, pos |-> r.pos, sub_state |-> "None"]
             ELSE RunStates(st1, b, r.pos, r.ret)

\* stream.readline()
readline(s, pos) == SubSeq(s, pos + 1, LineEnd(s, pos))

\* buf.write(line) at position pos
write(b, pos, line) ==
    SubSeq(b, 1, pos) \o line \o SubSeq(b, pos + Len(line) + 1, Len(b))

\* a slip in the return path: the newline is appended unconditionally
ReturnedText_AlwaysNewline(b, size, sub_state) == SubSeq(b, 1, size) \o <<NL>>

\* the text read_one returns once the stack ran empty
ReturnedText(b, size, sub_state) ==
    IF sub_state = "newline" THEN SubSeq(b, 1, size) ELSE SubSeq(b, 1, size) \o <<NL>>

\* a slip at end of stream: the pending continuations are dropped silently
AtEndOfStream_Silent(st) == "done"

\* read_one at end of stream
AtEndOfStream(st) == IF st # <<>> THEN "IOError" ELSE "done"

-----------------------------------------------------------------------------
(* StreamReader: the actions *)

ReaderInit ==
    /\ stream \in Texts(MaxLen)
    /\ spos = 0
    /\ buf = <<>>
    /\ bufpos = 0
    /\ states = <<>>
    /\ yielded = <<>>
    /\ rstate = "reading"

\* One turn of the `while True` loop of read_one with a line to read.  When the
\* stack runs empty read_one returns, __iter__ yields the text and calls read_one
\* again, which starts from a fresh buffer and an empty stack.
ReadLine ==
    /\ rstate = "reading"
    /\ spos < Len(stream)
    /\ LET line == readline(stream, spos)
           st0 == IF states = <<>> /\ HasContent(line)
                  THEN Append(states, BlockFrame(0)) ELSE states
           b1 == write(buf, bufpos, line)
           run == RunStates(st0, b1, bufpos, "None")
           start == IF yielded = <<>> THEN 0 ELSE yielded[Len(yielded)].to
       IN  /\ spos' = spos + Len(line)
           /\ IF run.exit = "else"
              THEN /\ yielded' = Append(yielded,
                        [text |-> ReturnedText(b1, run.pos, run.sub_state),
                         from |-> start, to |-> spos + Len(line)])
                   /\ buf' = <<>>
                   /\ bufpos' = 0
                   /\ states' = <<>>
                   /\ rstate' = rstate
              ELSE /\ yielded' = yielded
                   /\ buf' = b1
                   /\ bufpos' = run.pos
                   /\ states' = run.states
                   /\ rstate' = IF run.exit = "ValueError" THEN "ValueError" ELSE rstate
    /\ UNCHANGED stream
    /\ UNCHANGED <<codecVars, evalVars, mainVars, parseVars>>

\* readline() returns '': read_one raises or returns None, which ends __iter__
ReadEOF ==
    /\ rstate = "reading"
    /\ spos >= Len(stream)
    /\ rstate' = AtEndOfStream(states)
    /\ UNCHANGED <<stream, spos, buf, bufpos, states, yielded>>
    /\ UNCHANGED <<codecVars, evalVars, mainVars, parseVars>>

ReaderNext == ReadLine \/ ReadEOF

\* no stream is being read
ReaderIdle ==
    /\ stream = <<>>
    /\ spos = 0
    /\ buf = <<>>
    /\ bufpos = 0
    /\ states = <<>>
    /\ yielded = <<>>
    /\ rstate = "idle"

-----------------------------------------------------------------------------
(* StreamReader: the block grammar of the specification, as a plain scanner  *)
(* over a text: braces count outside quotes and comments, a comment runs to  *)
(* the end of its line, a backslash in a quote escapes the next character.   *)

ScanStart == [mode |-> "scan", depth |-> 0, quote |-> "", escaped |-> FALSE]

ScanStep(s, ch) ==
    IF s.mode = "quote"
    THEN IF s.escaped THEN [s EXCEPT !.escaped = FALSE]
         ELSE IF ch = "\\" THEN [s EXCEPT !.escaped = TRUE]
         ELSE IF ch = s.quote THEN [s EXCEPT !.mode = "scan", !.quote = ""]
         ELSE s
    ELSE IF s.mode = "comment"
    THEN IF ch = NL THEN [s EXCEPT !.mode = "scan"] ELSE s
    ELSE IF ch = "\"" \/ ch = "'" THEN [s EXCEPT !.mode = "quote", !.quote = ch]
    ELSE IF ch = "#" THEN [s EXCEPT !.mode = "comment"]
    ELSE IF ch = "{" THEN [s EXCEPT !.depth = @ + 1]
    ELSE IF ch = "}" THEN [s EXCEPT !.depth = @ - 1]
    ELSE s

\* the scanner's state after the first n characters of text
RECURSIVE ScanTo(_, _)
ScanTo(text, n) == IF n = 0 THEN ScanStart ELSE ScanStep(ScanTo(text, n - 1), text[n])

\* character i of text is a newline at brace depth 0 outside any quote
EndsBlock(text, i) ==
    /\ text[i] = NL
    /\ LET s == ScanTo(text, i - 1) IN s.mode # "quote" /\ s.depth = 0

\* text stops inside a quoted string or inside braces
OpenAtEnd(text) ==
    LET s == ScanTo(text, Len(text)) IN s.mode = "quote" \/ s.depth > 0

\* the part of the stream a yielded block was read from
Segment(y) == SubSeq(stream, y.from + 1, y.to)

\* the part of the stream no yielded block was read from
Unyielded ==
    SubSeq(stream, (IF yielded = <<>> THEN 0 ELSE yielded[Len(yielded)].to) + 1, Len(stream))

\* the yielded blocks were read from consecutive spans of the stream, in order
InOrder ==
    /\ yielded # <<>> => yielded[1].from = 0
    /\ \A i \in 1..Len(yielded) :
        /\ yielded[i].from < yielded[i].to
        /\ yielded[i].to <= spos
        /\ i > 1 => yielded[i].from = yielded[i - 1].to


ReaderEnded == rstate = "done" \/ rstate = "IOError"

\* y is the shortest prefix of the input left at y.from that ends in a newline
\* at depth 0 outside quote and comment
MinimalBlock(y) ==
    /\ y.text = SubSeq(stream, y.from + 1, y.from + Len(y.text))
    /\ Len(y.text) > 0
    /\ EndsBlock(y.text, Len(y.text))
    /\ \A i \in 1..(Len(y.text) - 1) : ~EndsBlock(y.text, i)

-----------------------------------------------------------------------------
(* StreamReader: the claims *)

\* C4: every yielded block is the minimal prefix of the remaining input that
\* ends at a newline with brace depth 0 outside any quote or comment.
C4_MinimalPrefix == \A i \in 1..Len(yielded) : MinimalBlock(yielded[i])

\* C4, for the blocks that begin with a content line: each is the minimal
\* prefix of the input left at its start (the part of C4 the code keeps).
C4_ContentBlocks ==
    \A i \in 1..Len(yielded) :
        HasContent(Segment(yielded[i])) => MinimalBlock(yielded[i])

C6_NoBlankBlocks ==
    \A i \in 1..Len(yielded) :
        HasContent(readline(yielded[i].text, 0))

\* the text of the last block of the stream: what was left unyielded at the
\* end, or else what the last yielded block was read from
LastBlockText ==
    IF Unyielded # <<>> THEN Unyielded
    ELSE IF yielded = <<>> THEN <<>> ELSE Segment(yielded[Len(yielded)])

\* C7: a stream that ends at depth 0 outside any quote on a content line without
\* trailing newline yields that text as the final block, one newline appended,
\* and raises nothing.
C7_BlockAtEndOfStream ==
    (/\ ReaderEnded
     /\ stream # <<>>
     /\ stream[Len(stream)] # NL
     /\ HasContent(readline(LastBlockText, 0))
     /\ ScanTo(LastBlockText, Len(LastBlockText)).mode = "scan"
     /\ ScanTo(LastBlockText, Len(LastBlockText)).depth = 0)
    => /\ rstate = "done"
       /\ Unyielded = <<>>
       /\ yielded[Len(yielded)].text = LastBlockText \o <<NL>>

\* C8: a stream that ends inside braces or inside a quoted string makes read_one
\* raise; no incomplete text is ever yielded, and the blocks completed before
\* were yielded in order.
C8_FatalAtEndOfStream ==
    /\ InOrder
    /\ \A i \in 1..Len(yielded) : ~OpenAtEnd(yielded[i].text)
    /\ (ReaderEnded /\ OpenAtEnd(Unyielded)) => rstate = "IOError"

\* C8 witness: the stream ended inside a quoted string after a block was
\* yielded, and read_one raised.
C8_Witness ==
    /\ rstate = "IOError"
    /\ \E i \in 1..Len(yielded) : HasContent(yielded[i].text)
    /\ ScanTo(Unyielded, Len(Unyielded)).mode = "quote"

\* C8 witness of the other case: the stream ended inside braces.
C8_WitnessDepth ==
    /\ rstate = "IOError"
    /\ \E i \in 1..Len(yielded) : HasContent(yielded[i].text)
    /\ ScanTo(Unyielded, Len(Unyielded)).mode = "scan"
    /\ ScanTo(Unyielded, Len(Unyielded)).depth > 0

-----------------------------------------------------------------------------
(* Document Values.  Every value is a record of one shape; a raised         *)
(* exception travels as a value of kind "Raise".                            *)

NullV == [kind |-> "Null", n |-> 0, s |-> "", items |-> <<>>]
IntV(i) == [kind |-> "Int", n |-> i, s |-> "", items |-> <<>>]
ListV(xs) == [kind |-> "List", n |-> 0, s |-> "", items |-> xs]
\* a dict: its items in insertion order
MapV(fields) == [kind |-> "Map", n |-> 0, s |-> "", items |-> fields]
StrV(str) == [kind |-> "Str", n |-> 0, s |-> str, items |-> <<>>]
RaiseV(exc) == [kind |-> "Raise", n |-> 0, s |-> exc, items |-> <<>>]

\* the characters of a text value
StrChars(str) ==
    IF str = "x" THEN <<"x">> ELSE IF str = "xy" THEN <<"x", "y">>
    ELSE IF str = "X" THEN <<"X">> ELSE IF str = "1" THEN <<"1">> ELSE <<>>
\* ord(c)
CharCode(c) == IF c = "x" THEN 120 ELSE IF c = "y" THEN 121 ELSE IF c = "X" THEN 88 ELSE 49
StrCode(str) == [i \in 1..Len(StrChars(str)) |-> CharCode(StrChars(str)[i])]

\* an item of a dict of Document Values
Field(name, val) == [name |-> name, val |-> val]

\* name in dict
HasName(fields, name) == \E i \in 1..Len(fields) : fields[i].name = name

\* dict.get(name): None when absent
DictGet(fields, name) ==
    IF \E i \in 1..Len(fields) : fields[i].name = name
    THEN fields[CHOOSE i \in 1..Len(fields) : fields[i].name = name].val
    ELSE NullV

\* dict[name] = val: a present key keeps its place
DictSet(fields, name, val) ==
    IF \E i \in 1..Len(fields) : fields[i].name = name
    THEN [i \in 1..Len(fields) |->
            IF fields[i].name = name THEN Field(name, val) ELSE fields[i]]
    ELSE Append(fields, Field(name, val))

-----------------------------------------------------------------------------
(* Prototxt text, line by line: "name: tok", "name {", "}", or a lone       *)
(* scalar.  idx is the sequence number of the synthetic key name@NNNNNNNNN  *)
(* that stands for name between the text and the YAML document.             *)

NoIdx == 0 - 1
FieldLine(name, tok) == [k |-> "F", name |-> name, idx |-> NoIdx, tok |-> tok]
OpenLine(name) == [k |-> "O", name |-> name, idx |-> NoIdx, tok |-> ""]
CloseLine == [k |-> "C", name |-> "", idx |-> NoIdx, tok |-> ""]
ScalarLine(tok) == [k |-> "S", name |-> "", idx |-> NoIdx, tok |-> tok]

Names == {"a", "bb"}
\* the code points of a field name
NameCode(name) == IF name = "a" THEN <<97>> ELSE IF name = "b" THEN <<98>> ELSE <<98, 98>>

\* scalar tokens: integers, null, a flow mapping written on the line of its
\* key, and an unclosed flow sequence
IntToks == {"1", "2"}
Toks == IntToks \cup {"null", "{b: 1}", "[1"}
TokInt(tok) == IF tok = "1" THEN 1 ELSE 2
IntTok(i) == IF i = 1 THEN "1" ELSE "2"

\* the texts that occur as scalars, and a text between two quote characters
TextScalars == {"x", "X", "1"}
Quoted(q, str) == q \o str \o q

LineKinds ==
    {FieldLine(nm, tok) : nm \in Names, tok \in Toks}
        \cup {OpenLine(nm) : nm \in Names} \cup {CloseLine}

HasKey(l) == l.k = "F" \/ l.k = "O"

\* a key of the YAML document: ok alone, or ok@idx
Key(ok, idx) == [ok |-> ok, idx |-> idx]
RawItem(key, val) == [key |-> key, val |-> val]

\* dict[key] = val on a dict keyed by YAML keys
RawSet(items, key, val) ==
    IF \E i \in 1..Len(items) : items[i].key = key
    THEN [i \in 1..Len(items) |->
            IF items[i].key = key THEN RawItem(key, val) ELSE items[i]]
    ELSE Append(items, RawItem(key, val))

-----------------------------------------------------------------------------
(* load_prototxt *)

\* what a call hands back: a text, a value, or an exception
Text(t) == [form |-> "text", v |-> NullV, t |-> t, exc |-> ""]
Value(v) == [form |-> "value", v |-> v, t |-> <<>>, exc |-> ""]
Raised(exc) == [form |-> "raise", v |-> NullV, t |-> <<>>, exc |-> exc]
\* no call made yet
Pending == [form |-> "none", v |-> NullV, t |-> <<>>, exc |-> ""]

\* re.search(r'[a-zA-Z]\w*\s*[{:]', s): the text has a field line
is_keyed(lines) == \E i \in 1..Len(lines) : HasKey(lines[i])

\* replace_key: the idx-th field line of the text gets the key name@idx
replace_key(lines) ==
    [i \in 1..Len(lines) |->
        IF HasKey(lines[i])
        THEN [lines[i] EXCEPT
                !.idx = Cardinality({j \in 1..(i - 1) : HasKey(lines[j])})]
        ELSE lines[i]]

\* the keys of the dict unames after replace_key
unames(lines) ==
    {Key(lines[i].name, lines[i].idx) : i \in {j \in 1..Len(lines) : HasKey(lines[j])}}

\* the YAML resolver on a scalar token; the flow mapping {b: 1} was written
\* on its key's line and so keeps its key b
resolve(tok) ==
    IF tok = "null" THEN NullV
    ELSE IF tok = "{b: 1}" THEN MapV(<<RawItem(Key("b", NoIdx), IntV(1))>>)
    ELSE IF tok \in IntToks THEN IntV(TokInt(tok))
    ELSE \* a quoted scalar, or a plain one that is no number and not null
         StrV(CHOOSE str \in TextScalars :
                tok \in {str, Quoted("'", str), Quoted("\"", str)})

Parsed(st, items, pos) == [st |-> st, items |-> items, pos |-> pos]

\* yaml.load on the flow mapping built from the lines: the entries of one
\* mapping, from lines[pos] up to its closing brace
RECURSIVE parse_map(_, _, _, _)
parse_map(lines, pos, depth, items) ==
    IF pos > Len(lines)
    THEN IF depth > 0 THEN Parsed("ParserError", <<>>, pos)
         ELSE Parsed("ok", items, pos)
    ELSE LET l == lines[pos] IN
         IF l.k = "C"
         THEN IF depth = 0 THEN Parsed("ParserError", <<>>, pos)
              ELSE Parsed("ok", items, pos + 1)
         ELSE IF l.k = "F"
         THEN IF l.tok = "[1" THEN Parsed("ParserError", <<>>, pos)
              ELSE parse_map(lines, pos + 1, depth,
                       Append(items, RawItem(Key(l.name, l.idx), resolve(l.tok))))
         ELSE IF l.k = "O"
         THEN LET sub == parse_map(lines, pos + 1, depth + 1, <<>>) IN
              IF sub.st # "ok" THEN sub
              ELSE parse_map(lines, sub.pos, depth,
                       Append(items, RawItem(Key(l.name, l.idx), MapV(sub.items))))
         ELSE \* a lone scalar inside a mapping is a key with a null value
              parse_map(lines, pos + 1, depth,
                  Append(items, RawItem(Key(l.tok, NoIdx), NullV)))

yaml_load(lines) == parse_map(lines, 1, 0, <<>>)

\* restore_key: the renamed keys get their names back, and a name seen
\* again turns its value into a list
RECURSIVE restore_loop(_, _, _, _)
restore_key(no, un) == restore_loop(no.items, 1, <<>>, un)

restore_loop(items, i, oo, un) ==
    IF i > Len(items) THEN MapV(oo)
    ELSE LET nk == items[i].key
             nv0 == items[i].val
         IN
         IF nk \notin un THEN RaiseV("KeyError")
         ELSE LET ok == nk.ok
                  nv == IF nv0.kind = "Map" THEN restore_key(nv0, un) ELSE nv0
                  ov == DictGet(oo, ok)
              IN
              IF nv.kind = "Raise" THEN nv
              ELSE IF ov.kind = "Null"
              THEN restore_loop(items, i + 1, DictSet(oo, ok, nv), un)
              ELSE IF ov.kind # "List"
              THEN restore_loop(items, i + 1, DictSet(oo, ok, ListV(<<ov, nv>>)), un)
              ELSE restore_loop(items, i + 1,
                       DictSet(oo, ok, ListV(Append(ov.items, nv))), un)

load_prototxt(lines) ==
    IF ~ is_keyed(lines)
    THEN IF lines = <<>> THEN Value(NullV)
         ELSE IF Len(lines) = 1 /\ lines[1].k = "S" THEN Value(resolve(lines[1].tok))
         ELSE Raised("ParserError")
    ELSE LET s == replace_key(lines)
             o == yaml_load(s)
         IN
         IF o.st # "ok" THEN Raised(o.st)
         ELSE LET oo == restore_key(MapV(o.items), unames(s)) IN
              IF oo.kind = "Raise" THEN Raised(oo.s) ELSE Value(oo)

-----------------------------------------------------------------------------
(* dump_prototxt *)

\* the code point of "@"
DELIMITER == 64
\* UNAME_ID_FORMAT: the decimal digits of idx, zero-padded to this width
UNAME_ID_WIDTH == 9
indent == 2
\* dump_kwds_: the line width handed to yaml.dump
width == indent * 2 + 1

\* dump_prototxt's defaults: quote='"', unquote_rule=str.isupper
quote == "\""
Upper == {"X"}
Lower == {"x", "y"}
Digits == {"1"}
\* str.isupper: a cased character, and none in lower case
unquote_rule(str) ==
    /\ \E i \in 1..Len(StrChars(str)) : StrChars(str)[i] \in Upper
    /\ \A i \in 1..Len(StrChars(str)) : StrChars(str)[i] \notin Lower

\* is_numeric on a text of letters and digits: neither regular expression
\* matches (no inf, no nan) and float() takes it when it is all digits
is_numeric(str) ==
    /\ StrChars(str) # <<>>
    /\ \A i \in 1..Len(StrChars(str)) : StrChars(str)[i] \in Digits

\* str_tag + ov: the text value marked as textual in the YAML document
str_tag(str) == [kind |-> "Tagged", n |-> 0, s |-> str, items |-> <<>>]

RECURSIVE Pow10(_)
Pow10(n) == IF n = 0 THEN 1 ELSE 10 * Pow10(n - 1)

\* the code points of UNAME_ID_FORMAT.format(idx)
uname_id(idx) ==
    [i \in 1..UNAME_ID_WIDTH |-> 48 + ((idx \div Pow10(UNAME_ID_WIDTH - i)) % 10)]

\* the code points of a key of the YAML document
KeyString(key) ==
    IF key.idx = NoIdx THEN NameCode(key.ok)
    ELSE NameCode(key.ok) \o <<DELIMITER>> \o uname_id(key.idx)

\* str.__lt__ on code points
RECURSIVE CodeLess(_, _)
CodeLess(a, b) ==
    IF b = <<>> THEN FALSE
    ELSE IF a = <<>> THEN TRUE
    ELSE IF Head(a) # Head(b) THEN Head(a) < Head(b)
    ELSE CodeLess(Tail(a), Tail(b))

\* replace_key_value: an element of a list-valued field becomes an entry of
\* its own under the key name@idx; a list inside a list is refused
RECURSIVE replace_key_value(_)
RECURSIVE replace_list(_, _, _)
replace_list(ok, ov, idx) ==
    IF idx > Len(ov) THEN <<>>
    ELSE LET oi == ov[idx]
             ni == IF oi.kind = "Map" THEN replace_key_value(oi) ELSE oi
             rest == replace_list(ok, ov, idx + 1)
         IN
         IF oi.kind = "List" \/ ni.kind = "Raise" \/ rest = <<RaiseV("AssertionError")>>
         THEN <<RaiseV("AssertionError")>>
         ELSE <<RawItem(Key(ok, idx - 1), ni)>> \o rest

RECURSIVE replace_loop(_, _, _)
replace_loop(fields, i, no) ==
    IF i > Len(fields) THEN MapV(no)
    ELSE LET ok == fields[i].name
             ov == fields[i].val
         IN
         IF ov.kind = "Map"
         THEN LET nv == replace_key_value(ov) IN
              IF nv.kind = "Raise" THEN nv
              ELSE replace_loop(fields, i + 1, RawSet(no, Key(ok, NoIdx), nv))
         ELSE IF ov.kind = "List"
         THEN LET ni == replace_list(ok, ov.items, 1) IN
              IF ni = <<RaiseV("AssertionError")>> THEN RaiseV("AssertionError")
              ELSE replace_loop(fields, i + 1, no \o ni)
         ELSE IF ov.kind = "Str"
         THEN replace_loop(fields, i + 1,
                  RawSet(no, Key(ok, NoIdx), IF is_numeric(ov.s) THEN ov ELSE str_tag(ov.s)))
         ELSE replace_loop(fields, i + 1, RawSet(no, Key(ok, NoIdx), ov))

replace_key_value(oo) == replace_loop(oo.items, 1, <<>>)

\* yaml.dump represents every mapping with its keys sorted
RECURSIVE sort_keys(_)
sort_keys(no) ==
    LET items == no.items
        n == Len(items)
        rank(i) == 1 + Cardinality({j \in 1..n :
                        CodeLess(KeyString(items[j].key), KeyString(items[i].key))})
        at(r) == items[CHOOSE i \in 1..n : rank(i) = r]
    IN MapV([r \in 1..n |->
              IF at(r).val.kind = "Map"
              THEN RawItem(at(r).key, sort_keys(at(r).val))
              ELSE at(r)])

\* The emitter breaks the line before the first key of a flow mapping only
\* when the column has passed the width.  After "{", the root's first key,
\* ": " and the "{" of its value the column is 1 + len(key) + 3: within the
\* width, the value's first entry stays on that line.
first_entry_inline(no) ==
    /\ no.items # <<>>
    /\ no.items[1].val.kind = "Map"
    /\ no.items[1].val.items # <<>>
    /\ 1 + Len(KeyString(no.items[1].key)) + 3 <= width

\* a scalar as yaml.dump writes it: its text, between quotes of this style
\* or plain, and whether the text starts with the str tag
Scalar(style, tagged, text) == [style |-> style, tagged |-> tagged, text |-> text]

\* the YAML representation of a scalar: a text is written plain unless it
\* would be read back as something else (a number, the tag indicator "!")
represent(v) ==
    IF v.kind = "Null" THEN Scalar("", FALSE, "null")
    ELSE IF v.kind = "Int" THEN Scalar("", FALSE, IntTok(v.n))
    ELSE IF v.kind = "Tagged" THEN Scalar("'", TRUE, v.s)
    ELSE Scalar(IF is_numeric(v.s) THEN "'" ELSE "", FALSE, v.s)

\* fix_value_quote on the value of one line: a quoted text that starts with
\* the tag loses the tag, and its quotes too if unquote_rule takes it;
\* anything else is left as yaml.dump wrote it
fix_value_quote(sc) ==
    IF sc.tagged /\ sc.style # ""
    THEN IF unquote_rule(sc.text) THEN sc.text ELSE Quoted(quote, sc.text)
    ELSE Quoted(sc.style, sc.text)

\* restore_key, the brace fixes and fix_value_quote: one line per entry, a
\* nested mapping as "name {" ... "}"
RECURSIVE emit(_)
emit(items) ==
    IF items = <<>> THEN <<>>
    ELSE LET k == Head(items).key
             v == Head(items).val
         IN
         IF v.kind = "Map"
         THEN <<OpenLine(k.ok)>> \o emit(v.items) \o <<CloseLine>> \o emit(Tail(items))
         ELSE <<FieldLine(k.ok, fix_value_quote(represent(v)))>> \o emit(Tail(items))

\* fix_mapping_end_break: its line-by-line accounting of indentation asserts
\* when a closing brace shares the line of an entry that opened none
fix_mapping_end_break(no) ==
    IF first_entry_inline(no) THEN Raised("AssertionError") ELSE Text(emit(no.items))

dump_prototxt(o) ==
    IF o.kind = "List" THEN Raised("AssertionError")
    ELSE IF o.kind = "Str"
    THEN Text(<<ScalarLine(IF unquote_rule(o.s) THEN o.s ELSE Quoted(quote, o.s))>>)
    ELSE IF o.kind # "Map" THEN Text(<<ScalarLine(represent(o).text)>>)
    ELSE LET no == replace_key_value(o) IN
         IF no.kind = "Raise" THEN Raised(no.s)
         ELSE fix_mapping_end_break(sort_keys(no))

-----------------------------------------------------------------------------
(* The codec under test: a Document Value or a text, then dump_prototxt and  *)
(* load_prototxt in turn on what the previous call returned.                 *)

MaxChain == 3
\* the longest chain of calls followed from one input

Scalars == {NullV, IntV(1)}
Elems == Scalars \cup {MapV(<<>>), MapV(<<Field("a", IntV(1))>>)}
SeqsUpTo(S, n) == UNION {[1..k -> S] : k \in 0..n}
Lists(n) == {ListV(xs) : xs \in SeqsUpTo(Elems, n)}
InnerMaps(n) ==
    {MapV(<<>>)} \cup
    {MapV(<<Field(nm, v)>>) : nm \in Names,
        v \in Scalars \cup {ListV(xs) : xs \in SeqsUpTo(Scalars, n)}}
FieldValues(n) == Scalars \cup Lists(n) \cup InnerMaps(n)
\* the maps handed to dump_prototxt, their lists of at most n elements
Docs(n) ==
    {MapV(<<>>)}
        \cup {MapV(<<Field(nm, v)>>) : nm \in Names, v \in FieldValues(n)}
        \cup UNION {{MapV(<<Field(n1, v1), Field(n2, v2)>>) :
                        n2 \in Names \ {n1}, v1 \in FieldValues(n), v2 \in FieldValues(n)} :
                    n1 \in Names}
\* maps that hold texts: as the value of a field, as elements of a list of
\* at most n, at the root and one level down, and in the maps of a list
TextValues == {StrV(str) : str \in TextScalars}
TextFieldValues(n) ==
    TextValues \cup {ListV(xs) : xs \in SeqsUpTo(TextValues \cup {IntV(1)}, n)}
TextDocs(n) ==
    {MapV(<<Field(nm, v)>>) : nm \in Names, v \in TextFieldValues(n)}
        \cup {MapV(<<Field("bb", MapV(<<Field("a", v)>>))>>) : v \in TextFieldValues(n)}
        \cup {MapV(<<Field("bb", ListV(<<MapV(<<Field("a", v)>>), e>>))>>) :
                v \in TextValues, e \in TextValues \cup {IntV(1)}}
\* the texts handed to load_prototxt, of at most n lines
ProtoTexts(n) == SeqsUpTo(LineKinds, n)

CodecInit ==
    chist \in {<<Value(v)>> : v \in Docs(MaxList) \cup TextDocs(MaxList) \cup TextValues
                                    \cup Scalars \cup {ListV(<<>>)}}
                \cup {<<Text(t)>> : t \in ProtoTexts(MaxLines)}

Last(h) == h[Len(h)]

Dump ==
    /\ chist # <<>> /\ Len(chist) < MaxChain
    /\ Last(chist).form = "value"
    /\ chist' = Append(chist, dump_prototxt(Last(chist).v))
    /\ UNCHANGED <<readerVars, evalVars, mainVars, parseVars>>

Load ==
    /\ chist # <<>> /\ Len(chist) < MaxChain
    /\ Last(chist).form = "text"
    /\ chist' = Append(chist, load_prototxt(Last(chist).t))
    /\ UNCHANGED <<readerVars, evalVars, mainVars, parseVars>>

CodecNext == Dump \/ Load

CodecIdle == chist = <<>>

-----------------------------------------------------------------------------
(* Properties of the codec *)

\* the repeated-field reading of a parsed block: the names of a level in
\* first-seen order, a name that occurs once with its value, a name that
\* occurs k >= 2 times with the list of its k values in order
RECURSIVE Grouped(_)
Grouped(items) ==
    LET n == Len(items)
        name(i) == items[i].key.ok
        value(i) == IF items[i].val.kind = "Map"
                    THEN Grouped(items[i].val.items) ELSE items[i].val
        first == {i \in 1..n : \A j \in 1..(i - 1) : name(j) # name(i)}
        nth(r) == CHOOSE i \in first : Cardinality({j \in first : j < i}) = r - 1
        occ(i) == {j \in 1..n : name(j) = name(i)}
        jth(i, r) == CHOOSE j \in occ(i) : Cardinality({h \in occ(i) : h < j}) = r - 1
        values(i) == [r \in 1..Cardinality(occ(i)) |-> value(jth(i, r))]
    IN MapV([r \in 1..Cardinality(first) |->
              Field(name(nth(r)),
                    IF Cardinality(occ(nth(r))) = 1 THEN value(nth(r))
                    ELSE ListV(values(nth(r))))])

\* the field names of a text, level by level: its lines without their values
Skeleton(lines) == [i \in 1..Len(lines) |-> [k |-> lines[i].k, name |-> lines[i].name]]

\* C1: a map that dump_prototxt accepts comes back from
\* load_prototxt(dump_prototxt(v)) structurally equal: same names, same order,
\* a list-valued field as a list of the same length.
C1_RoundTrip ==
    (/\ Len(chist) = 3
     /\ chist[1].form = "value" /\ chist[1].v.kind = "Map"
     /\ chist[2].form = "text")
        => (chist[3].form = "value" /\ chist[3].v = chist[1].v)

\* C9: load_prototxt returns, under a name that occurs k >= 2 times at one
\* level, the list of exactly those k values in their order, the names of a
\* level in first-seen order, at every depth and for every kind of value.
C9_RepeatedFields ==
    (/\ Len(chist) >= 2
     /\ chist[1].form = "text" /\ is_keyed(chist[1].t)
     /\ chist[2].form = "value")
        => chist[2].v = Grouped(yaml_load(replace_key(chist[1].t)).items)

\* C10: for a well-formed block text t, dump_prototxt(load_prototxt(t)) lists
\* at every level the field names of t, in the order and with the
\* multiplicities of t.
C10_DecodeEncode ==
    (/\ Len(chist) = 3
     /\ chist[1].form = "text"
     /\ chist[2].form = "value" /\ chist[2].v.kind = "Map")
        => (chist[3].form = "text" /\ Skeleton(chist[3].t) = Skeleton(chist[1].t))

\* every text of the YAML document carries the tag, unless it looks numeric
RECURSIVE all_tagged(_)
all_tagged(items) ==
    \A i \in 1..Len(items) :
        /\ items[i].val.kind = "Map" => all_tagged(items[i].val.items)
        /\ items[i].val.kind = "Str" => is_numeric(items[i].val.s)

\* C20: dump_prototxt decides the quoting of every text scalar alike, be it
\* the single value of a field or an element of a list-valued field, at any
\* depth: it is tagged as textual unless it looks numeric, and it is
\* written without quotes only if it looks numeric or unquote_rule takes
\* it, and between quotes otherwise.
C20_QuotingEverywhere ==
    (/\ Len(chist) >= 2
     /\ chist[1].form = "value" /\ chist[1].v.kind = "Map"
     /\ chist[2].form = "text")
        => /\ all_tagged(replace_key_value(chist[1].v).items)
           /\ \A i \in 1..Len(chist[2].t) :
                 chist[2].t[i].tok \in TextScalars
                    => is_numeric(chist[2].t[i].tok) \/ unquote_rule(chist[2].t[i].tok)

-----------------------------------------------------------------------------
(* YPath: the parsed query *)

\* Node: name and index (index is None when indexed is FALSE)
Node(name) == [name |-> name, indexed |-> FALSE, index |-> 0, predicates |-> <<>>]
NodeAt(name, index) ==
    [name |-> name, indexed |-> TRUE, index |-> index, predicates |-> <<>>]
\* NodeWithPredicates
Where(node, predicates) == [node EXCEPT !.predicates = predicates]

HasAttrPredicate(attr_path, inversed) ==
    [cls |-> "HasAttr", attr_path |-> attr_path, inversed |-> inversed,
     operator |-> "", target |-> NullV]
MatchAttrPredicate(attr_path, operator, target) ==
    [cls |-> "MatchAttr", attr_path |-> attr_path, inversed |-> FALSE,
     operator |-> operator, target |-> target]

\* NodeGroup: one NodeWithPredicates, or the YPaths between braces
SingleGroup(node) == [nodes |-> <<node>>, braces |-> FALSE]
PathsGroup(paths) == [nodes |-> paths, braces |-> TRUE]

OPERATORS == {"==", "!=", "<>", ">=", "<=", "~=", ">", "<"}

-----------------------------------------------------------------------------
(* YPath: objects of the document and their identity *)

\* an object reached in the document, with the way that led to it
Ref(val, path) == [val |-> val, path |-> path]
Step(name, index) == [name |-> name, index |-> index]

\* id(): None, a small integer and a one-character text are one shared
\* object each (CPython); any other object is told apart by its place in the
\* document
id(r) ==
    IF r.val.kind \in {"Null", "Int"} \/ (r.val.kind = "Str" /\ Len(StrChars(r.val.s)) = 1)
    THEN [shared |-> TRUE, val |-> r.val, path |-> <<>>]
    ELSE [shared |-> FALSE, val |-> NullV, path |-> r.path]

Ok(ref) == [exc |-> "", ref |-> ref]
Exc(exc) == [exc |-> exc, ref |-> Ref(NullV, <<>>)]

\* mapping[self.name]
getitem_name(r, name) ==
    IF r.val.kind = "Map"
    THEN IF HasName(r.val.items, name)
         THEN Ok(Ref(DictGet(r.val.items, name), Append(r.path, Step(name, 0))))
         ELSE Exc("KeyError")
    ELSE Exc("TypeError")

\* ret[self.index]
getitem_index(r, index) ==
    LET elems == IF r.val.kind = "List" THEN r.val.items
                 ELSE [i \in 1..Len(StrChars(r.val.s)) |-> StrV(StrChars(r.val.s)[i])]
        len == Len(elems)
    IN
    IF r.val.kind = "Map" THEN Exc("KeyError")
    ELSE IF r.val.kind \notin {"List", "Str"} THEN Exc("TypeError")
    ELSE IF index >= len \/ index < 0 - len THEN Exc("IndexError")
    ELSE LET i == IF index >= 0 THEN index + 1 ELSE len + index + 1 IN
         Ok(Ref(elems[i], Append(r.path, Step("", i - 1))))

\* Node.access
Node_access(node, r) ==
    LET ret == getitem_name(r, node.name) IN
    IF ret.exc # "" \/ ~ node.indexed THEN ret
    ELSE getitem_index(ret.ref, node.index)

\* Path.access: node by node, up to the first that raises
RECURSIVE Path_access(_, _)
Path_access_rest(ret, nodes) ==
    IF ret.exc # "" THEN ret ELSE Path_access(nodes, ret.ref)

Path_access(nodes, r) ==
    IF nodes = <<>> THEN Ok(r)
    ELSE Path_access_rest(Node_access(Head(nodes), r), Tail(nodes))

-----------------------------------------------------------------------------
(* YPath: predicates *)

\* a in b for two texts
IsSubstring(a, b) ==
    \E i \in 0..(Len(b) - Len(a)) : \A k \in 1..Len(a) : b[i + k] = a[k]

\* a < b for two objects; "TypeError" where Python defines no order
less(a, b) ==
    IF a.kind = "Int" /\ b.kind = "Int" THEN IF a.n < b.n THEN "True" ELSE "False"
    ELSE IF a.kind = "Str" /\ b.kind = "Str"
    THEN IF CodeLess(StrCode(a.s), StrCode(b.s)) THEN "True" ELSE "False"
    ELSE "TypeError"

Bool(b) == IF b THEN "True" ELSE "False"

\* OPERATORS[operator](a, b), b a scalar
func(operator, a, b) ==
    IF operator = "==" THEN Bool(a = b)
    ELSE IF operator \in {"!=", "<>"} THEN Bool(a # b)
    ELSE IF operator = "<" THEN less(a, b)
    ELSE IF operator = ">" THEN less(b, a)
    ELSE IF operator = "<="
    THEN IF less(a, b) = "TypeError" THEN "TypeError" ELSE Bool(a = b \/ less(a, b) = "True")
    ELSE IF operator = ">="
    THEN IF less(a, b) = "TypeError" THEN "TypeError" ELSE Bool(a = b \/ less(b, a) = "True")
    ELSE \* "~=": b in a
         IF a.kind = "Str"
         THEN IF b.kind = "Str" THEN Bool(IsSubstring(StrChars(b.s), StrChars(a.s)))
              ELSE "TypeError"
         ELSE IF a.kind = "List" THEN Bool(\E i \in 1..Len(a.items) : a.items[i] = b)
         ELSE IF a.kind = "Map" THEN Bool(b.kind = "Str" /\ HasName(a.items, b.s))
         ELSE "TypeError"

\* HasAttrPredicate.match
HasAttr_match(p, r) ==
    IF Path_access(p.attr_path, r).exc # "" THEN Bool(p.inversed) ELSE Bool(~ p.inversed)

\* a match that compares None with the target when the sub-path is unresolved
MatchAttr_func_Unguarded(p, item) ==
    func(p.operator, IF item.exc # "" THEN NullV ELSE item.ref.val, p.target)

\* MatchAttrPredicate.match: the except and the else branch
MatchAttr_func(p, item) ==
    IF item.exc # "" THEN "False"
    ELSE func(p.operator, item.ref.val, p.target)

\* MatchAttrPredicate.match
MatchAttr_match(p, r) == MatchAttr_func(p, Path_access(p.attr_path, r))

match(p, r) == IF p.cls = "HasAttr" THEN HasAttr_match(p, r) ELSE MatchAttr_match(p, r)

\* all(p.match(i) for p in self.predicates): stops at the first predicate
\* that is false or raises
RECURSIVE all_match(_, _)
all_match_rest(m, predicates, r) ==
    IF m = "True" THEN all_match(predicates, r) ELSE m

all_match(predicates, r) ==
    IF predicates = <<>> THEN "True"
    ELSE all_match_rest(match(Head(predicates), r), Tail(predicates), r)

-----------------------------------------------------------------------------
(* YPath: collect *)

\* what collect hands back: a list of items, or an exception
Collected(items) == [exc |-> "", items |-> items]
CollectRaised(exc) == [exc |-> exc, items |-> <<>>]

\* an item of the list: the object, under its name when with_name is set
Item(name, ref) == [name |-> name, ref |-> ref]

\* the except branch, or ret if isinstance(ret, list) else [ret]
as_list(ret) ==
    IF ret.exc # "" THEN <<>>
    ELSE IF ret.ref.val.kind = "List"
    THEN [k \in 1..Len(ret.ref.val.items) |->
            Ref(ret.ref.val.items[k], Append(ret.ref.path, Step("", k - 1)))]
    ELSE <<ret.ref>>

\* list(i for i in items if ...), matched[k] what all(...) gave for items[k]
keep_matched(items, matched, name) ==
    IF \E k \in 1..Len(items) : matched[k] = "TypeError"
    THEN CollectRaised("TypeError")
    ELSE Collected([i \in 1..Cardinality({k \in 1..Len(items) : matched[k] = "True"}) |->
            Item(name, items[CHOOSE k \in 1..Len(items) :
                    /\ matched[k] = "True"
                    /\ Cardinality({h \in 1..k : matched[h] = "True"}) = i])])

filter_items(items, predicates, name) ==
    keep_matched(items, [k \in 1..Len(items) |-> all_match(predicates, items[k])], name)

\* NodeWithPredicates.collect
NodeWithPredicates_collect(node, r, with_name) ==
    filter_items(as_list(Node_access(node, r)), node.predicates,
                 IF with_name THEN node.name ELSE "")

\* a group that hands on the sum of its alternatives as it is
dedupe_Nothing(items) == items

\* {id(i): i for i in items}: a key keeps the place of its first item and
\* the value of its last
dedupe(items) ==
    LET n == Len(items)
        key(i) == id(items[i].ref)
        first == {i \in 1..n : \A j \in 1..(i - 1) : key(j) # key(i)}
        nth(r) == CHOOSE i \in first : Cardinality({j \in first : j < i}) = r - 1
        last(i) == CHOOSE j \in 1..n :
                      key(j) = key(i) /\ \A h \in (j + 1)..n : key(h) # key(i)
    IN [r \in 1..Cardinality(first) |-> items[last(nth(r))]]

\* sum((...), []): one more list, unless it or the rest raised
concat(c, rest) ==
    IF c.exc # "" THEN c
    ELSE IF rest.exc # "" THEN rest
    ELSE Collected(c.items \o rest.items)

RECURSIVE YPath_collect(_, _, _)

\* sum((n.collect(mapping, with_name=with_name) for n in self.nodes), [])
RECURSIVE NodeGroup_each(_, _, _)
NodeGroup_each(nodes, r, with_name) ==
    IF nodes = <<>> THEN Collected(<<>>)
    ELSE concat(YPath_collect(Head(nodes), r, with_name),
                NodeGroup_each(Tail(nodes), r, with_name))

deduped(c) == IF c.exc # "" THEN c ELSE Collected(dedupe(c.items))

\* NodeGroup.collect
NodeGroup_collect(g, r, with_name) ==
    deduped(IF g.braces THEN NodeGroup_each(g.nodes, r, with_name)
            ELSE NodeWithPredicates_collect(g.nodes[1], r, with_name))

\* a step of the path that looks at the first accumulated item only
collect_each_First(g, items, with_name) ==
    IF items = <<>> THEN Collected(<<>>)
    ELSE NodeGroup_collect(g, Head(items).ref, with_name)

\* sum((node.collect(i) for i in ret), [])
RECURSIVE collect_each(_, _, _)
collect_each(g, items, with_name) ==
    IF items = <<>> THEN Collected(<<>>)
    ELSE concat(NodeGroup_collect(g, Head(items).ref, with_name),
                collect_each(g, Tail(items), with_name))

\* Path.collect, its nodes the NodeGroups of a YPath
RECURSIVE Path_fold(_, _, _)
Path_fold_rest(c, groups, with_name) ==
    IF c.exc # "" THEN c ELSE Path_fold(groups, c.items, with_name)

Path_fold(groups, items, with_name) ==
    IF Len(groups) = 1 THEN collect_each(groups[1], items, with_name)
    ELSE Path_fold_rest(collect_each(Head(groups), items, FALSE), Tail(groups), with_name)

YPath_collect(path, r, with_name) == Path_fold(path, <<Item("", r)>>, with_name)

-----------------------------------------------------------------------------
(* The evaluator under test: one collect of a parsed YPath on a document *)

MaxPredicates == 2
\* predicates between the parentheses of a node

Targets == {NullV, IntV(1), IntV(2), StrV("x")}
AttrPaths == {<<Node("x")>>, <<NodeAt("x", 0)>>}
Predicates ==
    {HasAttrPredicate(ap, inv) : ap \in AttrPaths, inv \in BOOLEAN}
        \cup {MatchAttrPredicate(ap, op, t) : ap \in AttrPaths, op \in OPERATORS, t \in Targets}
\* the predicates that are combined with '|'
Conjuncts ==
    {HasAttrPredicate(<<Node("x")>>, inv) : inv \in BOOLEAN}
        \cup {MatchAttrPredicate(<<Node("x")>>, op, IntV(1)) : op \in {"==", "!=", ">"}}
        \cup {MatchAttrPredicate(<<Node("x")>>, "==", StrV("x"))}
PlainNodes == {Node(nm) : nm \in Names} \cup {NodeAt("a", i) : i \in {0, 0 - 1, 2}}
\* the parsed queries, a node of at most n predicates
Queries(n) ==
    {<<SingleGroup(Where(nd, ps))>> : nd \in PlainNodes, ps \in SeqsUpTo(Predicates, 1)}
        \cup {<<SingleGroup(Where(Node("a"), ps))>> : ps \in SeqsUpTo(Conjuncts, n)}
        \cup {<<SingleGroup(n1), SingleGroup(n2)>> :
                n1 \in PlainNodes, n2 \in {Node("x"), NodeAt("x", 1)}}
        \cup {<<PathsGroup(<<<<SingleGroup(n1)>>, <<SingleGroup(n2)>>>>)>> :
                n1 \in PlainNodes, n2 \in PlainNodes}

XValues ==
    {NullV, IntV(1), IntV(2), StrV("x"), StrV("xy"),
     ListV(<<IntV(1), StrV("x")>>), MapV(<<Field("x", IntV(1))>>)}
Candidates == {MapV(<<Field("x", v)>>) : v \in XValues} \cup {IntV(1), MapV(<<>>)}
EvalDocs ==
    {MapV(<<Field("a", c)>>) : c \in Candidates}
        \cup {MapV(<<Field("a", ListV(<<c, MapV(<<Field("x", IntV(2))>>)>>))>>) :
                c \in Candidates}
        \cup {MapV(<<Field("a", v1), Field("bb", v2)>>) :
                v1 \in {IntV(1), StrV("x")}, v2 \in {IntV(1), StrV("x")}}
        \cup {MapV(<<Field("a", ListV(<<v, v>>))>>) : v \in {IntV(1), StrV("xy")}}
        \cup {MapV(<<Field("a", IntV(1)), Field("bb", MapV(<<Field("x", IntV(2))>>))>>)}

EvalInit ==
    /\ edoc \in EvalDocs
    /\ equery \in Queries(MaxPredicates)
    /\ ewith \in BOOLEAN
    /\ eres = Pending

\* the list collect returns, as a Document Value
Results(c, with_name) ==
    IF c.exc # "" THEN Raised(c.exc)
    ELSE Value(ListV([k \in 1..Len(c.items) |->
            IF with_name THEN MapV(<<Field(c.items[k].name, c.items[k].ref.val)>>)
            ELSE c.items[k].ref.val]))

\* results = path.collect(root, with_name=...)
Collect ==
    /\ eres = Pending
    /\ eres' = Results(YPath_collect(equery, Ref(edoc, <<>>), ewith), ewith)
    /\ UNCHANGED <<edoc, equery, ewith>>
    /\ UNCHANGED <<readerVars, codecVars, mainVars, parseVars>>

EvalNext == Collect

\* C2: collect never raises: an absent field, a type mismatch (a comparison
\* or ~= between a resolved value and a literal of incompatible kinds
\* included) or an out-of-range index only empties the branch's result.
C2_CollectNeverRaises == eres.form # "raise"

\* the candidates of a node: what its access gives, a list one by one
candidates(node, r) == as_list(Node_access(node, r))

\* the places of the candidates that every predicate matches
satisfying(predicates, cands) ==
    {k \in 1..Len(cands) :
        \A i \in 1..Len(predicates) : match(predicates[i], cands[k]) = "True"}

\* the candidates at the places in keep, in their order
selected(cands, keep, name) ==
    [i \in 1..Cardinality(keep) |->
        Item(name, cands[CHOOSE k \in keep : Cardinality({h \in keep : h < k}) = i - 1])]

non_inverted(p) == p.cls = "MatchAttr" \/ ~ p.inversed

\* (a collect that raises keeps nothing)
kept_exactly(got, node, cands, name) ==
    /\ got.items = selected(cands, satisfying(node.predicates, cands), name)
    /\ (node.predicates = <<>> => Len(got.items) = Len(cands))
    /\ \A k \in 1..Len(cands) :
          (/\ cands[k].val.kind # "Map"
           /\ \E i \in 1..Len(node.predicates) : non_inverted(node.predicates[i]))
              => \A j \in 1..Len(got.items) : got.items[j].ref # cands[k]

\* C11: NodeWithPredicates.collect keeps a candidate if and only if every
\* predicate between the parentheses matches it ('|' is AND); a node without
\* predicates keeps every candidate; a candidate that is not a map is dropped
\* by any predicate that is not inverted.
C11_PredicateConjunction ==
    (eres.form # "none" /\ Len(equery) = 1 /\ ~ equery[1].braces)
        => kept_exactly(
            NodeWithPredicates_collect(equery[1].nodes[1], Ref(edoc, <<>>), ewith),
            equery[1].nodes[1],
            candidates(equery[1].nodes[1], Ref(edoc, <<>>)),
            IF ewith THEN equery[1].nodes[1].name ELSE "")

\* the attribute sub-path of p resolves on the candidate
resolves(p, cand) == Path_access(p.attr_path, cand).exc = ""

\* got is what NodeWithPredicates.collect gives for the one predicate p
unresolved_is_false(p, cands, got) ==
    /\ \A k \in 1..Len(cands) :
          IF p.cls = "MatchAttr"
          THEN ~ resolves(p, cands[k]) => match(p, cands[k]) = "False"
          ELSE match(p, cands[k]) = Bool(resolves(p, cands[k]) # p.inversed)
    /\ (p.cls = "MatchAttr" /\ \A k \in 1..Len(cands) : ~ resolves(p, cands[k]))
          => eres = Value(ListV(<<>>))
    /\ (p.cls = "MatchAttr" /\ got.exc = "")
          => \A j \in 1..Len(got.items) : resolves(p, got.items[j].ref)
    /\ p.cls = "HasAttr"
          => /\ eres.form = "value"
             /\ got.items = selected(cands,
                    {k \in 1..Len(cands) : resolves(p, cands[k]) # p.inversed},
                    IF ewith THEN equery[1].nodes[1].name ELSE "")

\* C12: a Compare predicate whose attribute sub-path does not resolve on the
\* candidate (absent field, candidate that is no map, bad index) is false for
\* every operator, != and <> included, and raises nothing; a HasField
\* predicate is true exactly when the sub-path resolves, and exactly the
\* negation with the '!' prefix.
C12_UnresolvedSubPath ==
    (/\ eres.form # "none" /\ Len(equery) = 1 /\ ~ equery[1].braces
     /\ Len(equery[1].nodes[1].predicates) = 1)
        => unresolved_is_false(
            equery[1].nodes[1].predicates[1],
            candidates(equery[1].nodes[1], Ref(edoc, <<>>)),
            NodeWithPredicates_collect(equery[1].nodes[1], Ref(edoc, <<>>), ewith))

\* a != comparison on a candidate without the field, and an inverted
\* HasField on a candidate that is no map, have been evaluated
C12_Witness ==
    /\ eres = Value(ListV(<<>>))
    /\ Len(equery) = 1 /\ ~ equery[1].braces
    /\ equery[1].nodes[1].predicates = <<MatchAttrPredicate(<<Node("x")>>, "!=", IntV(1))>>
    /\ edoc = MapV(<<Field("a", ListV(<<MapV(<<>>), MapV(<<Field("x", IntV(2))>>)>>))>>)
    /\ equery[1].nodes[1] = Where(NodeAt("a", 0), equery[1].nodes[1].predicates)

C12_WitnessInverted ==
    /\ eres.form = "value" /\ Len(eres.v.items) = 1
    /\ Len(equery) = 1 /\ ~ equery[1].braces
    /\ equery[1].nodes[1] = Where(Node("a"), <<HasAttrPredicate(<<Node("x")>>, TRUE)>>)
    /\ edoc = MapV(<<Field("a", IntV(1))>>)

\* the identities of the objects of a list of items
ids(items) == [k \in 1..Len(items) |-> id(items[k].ref)]

\* where x stands first in a list
first_at(xs, x) == CHOOSE i \in 1..Len(xs) : xs[i] = x /\ \A j \in 1..(i - 1) : xs[j] # x

\* got holds every object of all once, in the order of their first places
once_in_first_order(got, all) ==
    /\ \A r, t \in 1..Len(got) : r # t => got[r] # got[t]
    /\ {got[r] : r \in 1..Len(got)} = {all[k] : k \in 1..Len(all)}
    /\ \A r, t \in 1..Len(got) : r < t => first_at(all, got[r]) < first_at(all, got[t])

TwiceA == <<PathsGroup(<<<<SingleGroup(Node("a"))>>, <<SingleGroup(Node("a"))>>>>)>>

C13_WitnessOrder ==
    /\ equery = <<PathsGroup(<<<<SingleGroup(NodeAt("a", 0 - 1))>>, <<SingleGroup(Node("a"))>>>>)>>
    /\ edoc = MapV(<<Field("a", ListV(<<MapV(<<>>), MapV(<<Field("x", IntV(2))>>)>>))>>)
    /\ ~ ewith
    /\ eres = Value(ListV(<<MapV(<<Field("x", IntV(2))>>), MapV(<<>>)>>))

\* the places in the document of the objects of a list of items
places(items) == {items[k].ref.path : k \in 1..Len(items)}

\* C19: the de-duplication of NodeGroup.collect never merges distinct items:
\* matches that come from different fields, or from different elements of
\* one repeated field, are all kept even when their values are equal
\* scalars; a single-node group yields as many matches as elements of the
\* selected field pass the predicates.
C19_NoMerge ==
    (eres.form = "value" /\ Len(equery) = 1)
        => /\ Len(eres.v.items) =
                Cardinality(places(
                    IF equery[1].braces
                    THEN NodeGroup_each(equery[1].nodes, Ref(edoc, <<>>), ewith).items
                    ELSE NodeWithPredicates_collect(
                            equery[1].nodes[1], Ref(edoc, <<>>), ewith).items))
           /\ ~ equery[1].braces
                => Len(eres.v.items) =
                    Len(NodeWithPredicates_collect(
                            equery[1].nodes[1], Ref(edoc, <<>>), ewith).items)

\* the values of what the group g collects on each of the objects refs, one
\* list after the other, under the name of the match when wrap is set
RECURSIVE through(_, _, _)
through(g, refs, wrap) ==
    IF refs = <<>> THEN <<>>
    ELSE [k \in 1..Len(NodeGroup_collect(g, Head(refs), wrap).items) |->
            IF wrap
            THEN MapV(<<Field(NodeGroup_collect(g, Head(refs), wrap).items[k].name,
                              NodeGroup_collect(g, Head(refs), wrap).items[k].ref.val)>>)
            ELSE NodeGroup_collect(g, Head(refs), wrap).items[k].ref.val]
         \o through(g, Tail(refs), wrap)

\* the objects the group g collects on the root, unwrapped
accumulated(g, root) ==
    [k \in 1..Len(NodeGroup_collect(g, root, FALSE).items) |->
        NodeGroup_collect(g, root, FALSE).items[k].ref]

ExampleDoc == MapV(<<Field("a", IntV(1)), Field("bb", MapV(<<Field("x", IntV(2))>>))>>)
ExampleQuery ==
    <<SingleGroup(Where(Node("bb"), <<MatchAttrPredicate(<<Node("x")>>, "==", IntV(2))>>))>>

\* what collect returned is the fold of the groups of the query from the root
folded ==
    (eres.form = "value" /\ Len(equery) \in {1, 2})
        => /\ eres.v.items =
                IF Len(equery) = 1 THEN through(equery[1], <<Ref(edoc, <<>>)>>, ewith)
                ELSE through(equery[2], accumulated(equery[1], Ref(edoc, <<>>)), ewith)
           /\ (edoc = ExampleDoc /\ equery = ExampleQuery /\ ewith)
                => eres.v.items = <<MapV(<<Field("bb", MapV(<<Field("x", IntV(2))>>))>>)>>

C17_WitnessExample ==
    /\ edoc = ExampleDoc /\ equery = ExampleQuery /\ ewith
    /\ eres = Value(ListV(<<MapV(<<Field("bb", MapV(<<Field("x", IntV(2))>>))>>)>>))


-----------------------------------------------------------------------------
(* ptgrep main: the blocks of the stream, one after another *)

MaxBlocks == 3
\* blocks the StreamReader yields in one run

\* the texts of the blocks, each one top-level entry as the StreamReader cuts
\* them: well-formed ones, two that yaml.load refuses with a ParserError, one
\* whose decoding fails in restore_key, and a blank one
BlockTexts ==
    {<<FieldLine("a", "1")>>,
     <<FieldLine("bb", "null")>>,
     <<OpenLine("a"), FieldLine("bb", "1"), CloseLine>>,
     <<OpenLine("bb"), FieldLine("a", "1"), FieldLine("a", "2"), CloseLine>>,
     <<FieldLine("a", "[1")>>,
     <<OpenLine("bb"), FieldLine("a", "[1"), CloseLine>>,
     <<FieldLine("a", "{b: 1}")>>,
     <<>>}
MainPaths ==
    {<<SingleGroup(Node("a"))>>, <<SingleGroup(Node("bb"))>>,
     <<SingleGroup(Node("bb")), SingleGroup(Node("a"))>>,
     <<PathsGroup(<<<<SingleGroup(Node("a"))>>, <<SingleGroup(Node("bb"))>>>>)>>}
\* --delimiter as given on the command line
DelimiterArgs == {<<>>, <<"-", "-", "-">>, <<"-", "-", "-", NL>>}

MainInit ==
    /\ blocks \in SeqsUpTo(BlockTexts, MaxBlocks)
    /\ mpath \in MainPaths
    /\ delimiter \in DelimiterArgs
    /\ bidx = 0
    /\ written = <<>>
    /\ mstate = "setup"

\* before the loop: a non-empty delimiter gets a final newline if it has
\* none, and the path is parsed
Setup ==
    /\ mstate = "setup"
    /\ delimiter' = IF delimiter # <<>> /\ delimiter[Len(delimiter)] # NL
                    THEN Append(delimiter, NL) ELSE delimiter
    /\ mstate' = "running"
    /\ UNCHANGED <<blocks, bidx, mpath, written>>
    /\ UNCHANGED <<readerVars, codecVars, evalVars, parseVars>>

\* for result in results: write(dump_prototxt(result)); write(delimiter)
\* up to the first result that dump_prototxt refuses
RECURSIVE write_results(_, _, _)
\* a write of the serialized result that is not followed by the delimiter
write_result_Bare(s, results, block, out) ==
    IF s.form = "raise" THEN [exc |-> s.exc, out |-> out]
    ELSE write_results(results, block,
             Append(out, [block |-> block, text |-> s.t, delimiter |-> <<>>]))

write_result(s, results, block, out) ==
    IF s.form = "raise" THEN [exc |-> s.exc, out |-> out]
    ELSE write_results(results, block,
             Append(out, [block |-> block, text |-> s.t, delimiter |-> delimiter]))

write_results(results, block, out) ==
    IF results = <<>> THEN [exc |-> "", out |-> out]
    ELSE write_result(
             dump_prototxt(MapV(<<Field(Head(results).name, Head(results).ref.val)>>)),
             Tail(results), block, out)

\* the loop body once the results are collected
Written(results, block) ==
    IF results.exc # "" THEN [exc |-> results.exc, out |-> written]
    ELSE write_results(results.items, block, written)

\* the loop body once load_prototxt has returned or raised
Processed(root, block) ==
    IF root.form = "raise"
    THEN [exc |-> IF root.exc = "ParserError" THEN "" ELSE root.exc, out |-> written]
    ELSE IF root.v.kind # "Map" THEN [exc |-> "", out |-> written]
    ELSE Written(YPath_collect(mpath, Ref(root.v, <<>>), TRUE), block)

\* what one turn of the loop leaves behind
Turned(w) ==
    /\ written' = w.out
    /\ mstate' = IF w.exc # "" THEN w.exc ELSE "running"

\* one turn of `for block in stream`
ProcessBlock ==
    /\ mstate = "running"
    /\ bidx < Len(blocks)
    /\ bidx' = bidx + 1
    /\ Turned(Processed(load_prototxt(blocks[bidx + 1]), bidx + 1))
    /\ UNCHANGED <<blocks, mpath, delimiter>>
    /\ UNCHANGED <<readerVars, codecVars, evalVars, parseVars>>

\* the stream is exhausted
Finish ==
    /\ mstate = "running"
    /\ bidx = Len(blocks)
    /\ mstate' = "done"
    /\ UNCHANGED <<blocks, bidx, mpath, delimiter, written>>
    /\ UNCHANGED <<readerVars, codecVars, evalVars, parseVars>>

MainNext == Setup \/ ProcessBlock \/ Finish

\* C3: when decoding of a block fails, whatever load_prototxt raised, the
\* block produces no output, the run does not abort, and the later blocks
\* are still processed.
C3_FaultTolerance ==
    \A i \in 1..bidx :
        load_prototxt(blocks[i]).form = "raise"
            => /\ \A k \in 1..Len(written) : written[k].block # i
               /\ (i = bidx => mstate \in {"running", "done"})

\* what was written for block i, in the order of the writes
entries(i) == SelectSeq(written, LAMBDA e : e.block = i)

\* the matches of a decoded block, none when decoding failed or the root is
\* no map
matches(root) ==
    IF root.form # "value" \/ root.v.kind # "Map" THEN <<>>
    ELSE YPath_collect(mpath, Ref(root.v, <<>>), TRUE).items

\* es are the writes of the first matches ms, in their order, each with the
\* delimiter; of all of them when the turn came to its end
written_in_order(es, ms, ended) ==
    /\ Len(es) <= Len(ms)
    /\ ended => Len(es) = Len(ms)
    /\ \A k \in 1..Len(es) :
          /\ es[k].text = dump_prototxt(MapV(<<Field(ms[k].name, ms[k].ref.val)>>)).t
          /\ es[k].delimiter = delimiter

in_pipeline_order ==
    /\ mstate = "setup" => bidx = 0 /\ written = <<>>
    /\ mstate # "setup" => delimiter = <<>> \/ delimiter[Len(delimiter)] = NL
    /\ \A k \in 1..Len(written) :
          /\ written[k].block \in 1..bidx
          /\ k > 1 => written[k - 1].block <= written[k].block
    /\ \A i \in 1..bidx :
          written_in_order(entries(i), matches(load_prototxt(blocks[i])),
                           i < bidx \/ mstate \in {"running", "done"})

one_block_at_a_time ==
    /\ mpath' = mpath /\ blocks' = blocks
    /\ bidx' \in {bidx, bidx + 1}
    /\ Len(written') >= Len(written)
    /\ \A k \in 1..Len(written) : written'[k] = written[k]
    /\ \A k \in (Len(written) + 1)..Len(written') : written'[k].block = bidx'
    /\ delimiter' # delimiter
          => /\ mstate = "setup" /\ delimiter # <<>> /\ delimiter[Len(delimiter)] # NL
             /\ delimiter' = Append(delimiter, NL)

C18_WitnessTwoBlocks ==
    /\ mstate = "done" /\ Len(written) = 2
    /\ written[1].block = 1 /\ written[2].block = 3
    /\ delimiter = <<>>

-----------------------------------------------------------------------------
(* YPath: parsing.  A text is a sequence of characters; parse hands back   *)
(* the number of characters consumed and the object, or raises.            *)

MaxTokens == 4

Letters == {"x"}
Word == Letters \cup Digits
Space == {" "}

\* text[k:]
Drop(text, k) == SubSeq(text, k + 1, Len(text))

\* the length of the longest prefix of text made of characters of S
RECURSIVE span(_, _)
span(text, S) ==
    IF text = <<>> \/ Head(text) \notin S THEN 0 ELSE 1 + span(Tail(text), S)

\* str.lstrip(), and str.lstrip(seperator)
lstrip(text) == Drop(text, span(text, Space))
lstrip_chars(text, c) == Drop(text, span(text, {c}))

\* text.startswith(prefix)
startswith(text, prefix) ==
    Len(prefix) <= Len(text) /\ SubSeq(text, 1, Len(prefix)) = prefix

\* the characters as one string
RECURSIVE Join(_)
Join(chars) == IF chars = <<>> THEN "" ELSE Head(chars) \o Join(Tail(chars))

\* int() of a sequence of digits
RECURSIVE digits_value(_, _)
digits_value(chars, acc) ==
    IF chars = <<>> THEN acc ELSE digits_value(Tail(chars), 10 * acc + 1)

\* no parse called yet
NotParsed ==
    [form |-> "none", pos |-> 0, obj |-> <<>>,
     token_type |-> "", text |-> <<>>, problem |-> "", position |-> NoIdx]
\* parse returned pos, self being obj
Parses(pos, obj) ==
    [form |-> "ok", pos |-> pos, obj |-> obj,
     token_type |-> "", text |-> <<>>, problem |-> "", position |-> NoIdx]
\* YPathSyntaxError(token_type, text, problem, position): problem is "" and
\* position is NoIdx where the constructor got None; obj is self as the
\* failed parse left it
YPathSyntaxError(token_type, text, problem, position, obj) ==
    [form |-> "raise", pos |-> 0, obj |-> obj,
     token_type |-> token_type, text |-> text, problem |-> problem, position |-> position]

\* Node.REGEX on the head of the text: the name, and the index if an
\* "@ index" follows; the length of what it matched, 0 for no match
name_end(text) ==
    IF text = <<>> \/ Head(text) \notin Letters THEN 0 ELSE span(text, Word)
\* the characters up to the sign of the index, from the end of the name: 0
\* when no "@" follows
index_begin(rest) ==
    IF span(rest, Space) < Len(rest) /\ rest[span(rest, Space) + 1] = "@"
    THEN span(rest, Space) + 1 + span(Drop(rest, span(rest, Space) + 1), Space)
    ELSE 0
sign_len(rest) == IF rest # <<>> /\ Head(rest) \in {"-", "+"} THEN 1 ELSE 0
\* the length of [\-\+]?\d+ at the head of rest, 0 when it does not match
integer_len(rest) ==
    IF span(Drop(rest, sign_len(rest)), Digits) = 0 THEN 0
    ELSE sign_len(rest) + span(Drop(rest, sign_len(rest)), Digits)
integer_value(chars) ==
    IF Head(chars) = "-" THEN 0 - digits_value(Tail(chars), 0)
    ELSE IF Head(chars) = "+" THEN digits_value(Tail(chars), 0)
    ELSE digits_value(chars, 0)
\* the length of (?:\s*@\s*([\-\+]?\d+))? at the head of rest
index_len(rest) ==
    IF index_begin(rest) = 0 \/ integer_len(Drop(rest, index_begin(rest))) = 0 THEN 0
    ELSE index_begin(rest) + integer_len(Drop(rest, index_begin(rest)))

\* the Node of a match that ends at m_end
matched_node(text, n, m_end) ==
    IF m_end = n THEN Node(Join(SubSeq(text, 1, n)))
    ELSE NodeAt(Join(SubSeq(text, 1, n)),
                integer_value(SubSeq(text, n + index_begin(Drop(text, n)) + 1, m_end)))

\* Node.parse
Node_parse(text, full) ==
    IF name_end(text) = 0
       \/ (full /\ name_end(text) + index_len(Drop(text, name_end(text))) # Len(text))
    THEN YPathSyntaxError("Node", text, "", NoIdx, <<>>)
    ELSE Parses(name_end(text) + index_len(Drop(text, name_end(text))),
                matched_node(text, name_end(text),
                             name_end(text) + index_len(Drop(text, name_end(text)))))

RECURSIVE Path_parse(_, _, _, _)
RECURSIVE NodeGroup_parse(_, _)

\* node = self.NodeClass(); node.parse(text, full=full)
parse_node(NodeClass, text, full) ==
    IF NodeClass = "Node" THEN Node_parse(text, full) ELSE NodeGroup_parse(text, full)

\* where the while loop of Path.parse stopped
Stopped(text_, nodes, exception) ==
    [text_ |-> text_, nodes |-> nodes, exception |-> exception]

\* Path.parse: the while loop, exception being NotParsed for None
RECURSIVE Path_loop(_, _, _, _, _)
Path_next(text, text_, text__, nodes, seperator, NodeClass, r) ==
    IF r.form = "raise" THEN Stopped(text_, nodes, r)
    ELSE Path_loop(text, lstrip(Drop(text__, r.pos)), Append(nodes, r.obj),
                   seperator, NodeClass)

Path_try(text, text_, text__, nodes, seperator, NodeClass) ==
    Path_next(text, text_, text__, nodes, seperator, NodeClass,
              parse_node(NodeClass, text__, FALSE))

Path_loop(text, text_, nodes, seperator, NodeClass) ==
    IF text_ = <<>> THEN Stopped(text_, nodes, NotParsed)
    ELSE IF nodes # <<>> /\ Head(text_) # seperator
    THEN Stopped(text_, nodes,
             YPathSyntaxError("Path", text, "seperator expected",
                              Len(text) - Len(text_), <<>>))
    ELSE Path_try(text, text_, lstrip(lstrip_chars(text_, seperator)), nodes,
                  seperator, NodeClass)

\* Path.parse: after the loop
Path_end(text, full, st) ==
    IF st.nodes = <<>>
    THEN YPathSyntaxError("Path", text, "node expected", Len(text) - Len(st.text_), <<>>)
    ELSE IF full /\ st.text_ # <<>>
    THEN IF st.exception.form = "none"
         THEN YPathSyntaxError("Path", text, "unexpected token",
                               Len(text) - Len(st.text_), <<>>)
         ELSE st.exception
    ELSE Parses(Len(text) - Len(st.text_), st.nodes)

\* Path.parse, self.nodes being the object
Path_parse(text, full, seperator, NodeClass) ==
    Path_end(text, full, Path_loop(text, text, <<>>, seperator, NodeClass))

\* YPath.parse
YPath_parse(text, full) == Path_parse(text, full, "/", "NodeGroup")

\* a Predicate() before parse: no attr_path, inversed False by the class,
\* no operator, no target
NewPredicate(cls) ==
    [cls |-> cls, attr_path |-> <<>>, inversed |-> FALSE, operator |-> "", target |-> NullV]

\* the keys of MatchAttrPredicate.OPERATORS in the order of the dict
OperatorOrder == <<"==", "!=", "<>", ">=", "<=", "~=", ">", "<">>
OperatorChars(operator) ==
    IF operator = "==" THEN <<"=", "=">> ELSE IF operator = "!=" THEN <<"!", "=">>
    ELSE IF operator = "<>" THEN <<"<", ">">> ELSE IF operator = ">=" THEN <<">", "=">>
    ELSE IF operator = "<=" THEN <<"<", "=">> ELSE IF operator = "~=" THEN <<"~", "=">>
    ELSE IF operator = ">" THEN <<">">> ELSE <<"<">>

\* for operator, func in OPERATORS.items(): the first key text_ starts
\* with, "" when the loop runs to its else
first_operator(text_) ==
    IF \E i \in 1..Len(OperatorOrder) : startswith(text_, OperatorChars(OperatorOrder[i]))
    THEN OperatorOrder[CHOOSE i \in 1..Len(OperatorOrder) :
            /\ startswith(text_, OperatorChars(OperatorOrder[i]))
            /\ \A j \in 1..(i - 1) : ~ startswith(text_, OperatorChars(OperatorOrder[j]))]
    ELSE ""

\* the place of the closing quote of a quoted target, 0 when there is none
RECURSIVE quote_end(_, _, _, _)
quote_end(text_, i, escaped, q) ==
    IF i > Len(text_) THEN 0
    ELSE IF escaped THEN quote_end(text_, i + 1, FALSE, q)
    ELSE IF text_[i] = "\\" THEN quote_end(text_, i + 1, TRUE, q)
    ELSE IF text_[i] = q THEN i
    ELSE quote_end(text_, i + 1, FALSE, q)

\* load_prototxt(target) on a scalar: a quoted text, a number, a plain text
load_scalar(target) ==
    IF Head(target) \in {"\"", "'"} THEN StrV(Join(SubSeq(target, 2, Len(target) - 1)))
    ELSE IF span(target, Digits) = Len(target) THEN IntV(digits_value(target, 0))
    ELSE StrV(Join(target))

\* MatchAttrPredicate.parse: the target, m_end its length
MatchAttr_return(self, text, text_, m_end) ==
    Parses(Len(text) - (Len(text_) - m_end),
           [self EXCEPT !.target = load_scalar(SubSeq(text_, 1, m_end))])

MatchAttr_target(self, text, text_) ==
    IF text_ = <<>>
    THEN YPathSyntaxError("MatchAttrPredicate", text, "target expected", Len(text), self)
    ELSE IF Head(text_) \in {"\"", "'"}
    THEN IF quote_end(text_, 2, FALSE, Head(text_)) = 0
         THEN YPathSyntaxError("MatchAttrPredicate", text, "trailing target",
                               Len(text), self)
         ELSE MatchAttr_return(self, text, text_, quote_end(text_, 2, FALSE, Head(text_)))
    ELSE IF span(text_, Word) = 0
    THEN YPathSyntaxError("MatchAttrPredicate", text, "invalid target",
                          Len(text) - Len(text_), self)
    ELSE MatchAttr_return(self, text, text_, span(text_, Word))

\* MatchAttrPredicate.parse: the operator
MatchAttr_operator(self, text, text_) ==
    IF text_ = <<>>
    THEN YPathSyntaxError("MatchAttrPredicate", text, "operator expected", Len(text), self)
    ELSE IF first_operator(text_) = ""
    THEN YPathSyntaxError("MatchAttrPredicate", text, "invalid operator",
                          Len(text) - Len(text_), self)
    ELSE MatchAttr_target([self EXCEPT !.operator = first_operator(text_)], text,
             lstrip(Drop(text_, Len(OperatorChars(first_operator(text_))))))

\* MatchAttrPredicate.parse: the attribute path; a Path that failed to
\* parse has no nodes
MatchAttr_path(self, text, r) ==
    IF r.form = "raise" THEN [r EXCEPT !.obj = [self EXCEPT !.attr_path = <<>>]]
    ELSE MatchAttr_operator([self EXCEPT !.attr_path = r.obj], text,
                            lstrip(Drop(text, r.pos)))

\* MatchAttrPredicate.parse on the object self; full is not looked at
MatchAttr_parse(self, text, full) ==
    MatchAttr_path(self, text, Path_parse(text, FALSE, ".", "Node"))

HasAttr_path(self, text, text_, r) ==
    IF r.form = "raise" THEN [r EXCEPT !.obj = [self EXCEPT !.attr_path = <<>>]]
    ELSE Parses(Len(text) - Len(text_) + r.pos, [self EXCEPT !.attr_path = r.obj])

\* HasAttrPredicate.parse on the object self
HasAttr_parse(self, text, full) ==
    IF text = <<>> THEN YPathSyntaxError("HasAttrPredicate", text, "", NoIdx, self)
    ELSE IF Head(text) = "!"
    THEN HasAttr_path([self EXCEPT !.inversed = TRUE], text, lstrip(Tail(text)),
                      Path_parse(lstrip(Tail(text)), full, ".", "Node"))
    ELSE HasAttr_path(self, text, text, Path_parse(text, full, ".", "Node"))

\* self.__class__ = cls; return ret
adopted(r, cls) == [r EXCEPT !.obj = [r.obj EXCEPT !.cls = cls]]

\* Predicate.parse: Predicate.subclasses in their order, each on the same
\* object
Predicate_last(text, r) ==
    IF r.form = "ok" THEN adopted(r, "HasAttr")
    ELSE YPathSyntaxError("Predicate", text, "", NoIdx, r.obj)

Predicate_second(text, full, r) ==
    IF r.form = "ok" THEN adopted(r, "MatchAttr")
    ELSE Predicate_last(text, HasAttr_parse(r.obj, text, full))

Predicate_parse(self, text, full) ==
    Predicate_second(text, full, MatchAttr_parse(self, text, full))

\* NodeWithPredicates.parse: the while loop; every predicate is a new
\* Predicate() parsed with full=False
RECURSIVE NodeWithPredicates_loop(_, _, _, _, _, _)
NodeWithPredicates_predicate(text, full, node, text_, predicates, r) ==
    IF r.form = "raise" THEN r
    ELSE NodeWithPredicates_loop(text, full, node, lstrip(Drop(text_, r.pos)),
                                 Append(predicates, r.obj), TRUE)

NodeWithPredicates_more(text, full, node, text_, predicates) ==
    NodeWithPredicates_predicate(text, full, node, text_, predicates,
        Predicate_parse(NewPredicate("Predicate"), text_, FALSE))

NodeWithPredicates_loop(text, full, node, text_, predicates, started) ==
    IF started
    THEN IF text_ = <<>>
         THEN YPathSyntaxError("NodeWithPredicates", text, "trailing predicates",
                               Len(text), node)
         ELSE IF Head(text_) = ")"
         THEN IF full /\ Tail(text_) # <<>>
              THEN YPathSyntaxError("NodeWithPredicates", text, "unexpected token",
                                    Len(text) - Len(Tail(text_)), node)
              ELSE Parses(Len(text) - Len(Tail(text_)), Where(node, predicates))
         ELSE IF Head(text_) = "|"
         THEN NodeWithPredicates_more(text, full, node, lstrip(Tail(text_)), predicates)
         ELSE YPathSyntaxError("NodeWithPredicates", text, "unexpected token",
                               Len(text) - Len(text_), node)
    ELSE IF text_ = <<>> THEN Parses(Len(text) - Len(text_), Where(node, predicates))
    ELSE IF Head(text_) = "("
    THEN NodeWithPredicates_more(text, full, node, lstrip(Tail(text_)), predicates)
    ELSE IF full
    THEN YPathSyntaxError("NodeWithPredicates", text, "unexpected token",
                          Len(text) - Len(text_), node)
    ELSE Parses(Len(text) - Len(text_), Where(node, predicates))

NodeWithPredicates_node(text, full, r) ==
    IF r.form = "raise" THEN r
    ELSE NodeWithPredicates_loop(text, full, r.obj, lstrip(Drop(text, r.pos)), <<>>, FALSE)

\* NodeWithPredicates.parse
NodeWithPredicates_parse(text, full) ==
    NodeWithPredicates_node(text, full, Node_parse(text, FALSE))

\* NodeGroup.parse: the while loop of a '{' group, text_ beginning with the
\* '{' or the ',' the step drops; PathClass is YPath
RECURSIVE NodeGroup_loop(_, _, _, _)
NodeGroup_after(text, full, text_, nodes) ==
    IF text_ = <<>>
    THEN YPathSyntaxError("NodeGroup", text, "trailing nodes", Len(text), <<>>)
    ELSE IF Head(text_) = "}"
    THEN IF full /\ Tail(text_) # <<>>
         THEN YPathSyntaxError("NodeGroup", text, "unexpected token",
                               Len(text) - Len(Tail(text_)), <<>>)
         ELSE Parses(Len(text) - Len(Tail(text_)), nodes)
    ELSE IF Head(text_) = ","
    THEN NodeGroup_loop(text, full, text_, nodes)
    ELSE YPathSyntaxError("NodeGroup", text, "unexpected token",
                          Len(text) - Len(text_), <<>>)

NodeGroup_path(text, full, text_, nodes, r) ==
    IF r.form = "raise" THEN r
    ELSE NodeGroup_after(text, full, lstrip(Drop(text_, r.pos)), Append(nodes, r.obj))

NodeGroup_loop(text, full, text_, nodes) ==
    NodeGroup_path(text, full, lstrip(Tail(text_)), nodes,
                   YPath_parse(lstrip(Tail(text_)), FALSE))

NodeGroup_single(text, r) ==
    IF r.form = "raise" THEN r ELSE Parses(r.pos, <<r.obj>>)

\* NodeGroup.parse, self.nodes being the object
NodeGroup_parse(text, full) ==
    IF text = <<>> THEN YPathSyntaxError("NodeGroup", text, "", NoIdx, <<>>)
    ELSE IF Head(text) = "{" THEN NodeGroup_loop(text, full, text, <<>>)
    ELSE NodeGroup_single(text, NodeWithPredicates_parse(text, full))

\* the grammar rules, by the name of the class whose parse is called
Rules ==
    {"Node", "Path", "NodeWithPredicates", "NodeGroup", "YPath",
     "Predicate", "HasAttrPredicate", "MatchAttrPredicate"}

\* the pieces the texts given to a rule are made of
Tokens(rule) ==
    IF rule = "Node"
    THEN {<<"x">>, <<"1">>, <<"@">>, <<"@", "1">>, <<"-">>, <<" ">>}
    ELSE IF rule = "Path"
    THEN {<<"x">>, <<"1">>, <<"/">>, <<"@", "1">>, <<" ">>}
    ELSE IF rule = "NodeWithPredicates"
    THEN {<<"x">>, <<"(", "x">>, <<")">>, <<"|", "x">>, <<"=", "=", "1">>, <<" ">>}
    ELSE IF rule = "NodeGroup"
    THEN {<<"x">>, <<"{">>, <<"}">>, <<",">>, <<"/">>, <<" ">>}
    ELSE IF rule = "YPath"
    THEN {<<"x">>, <<"{", "x">>, <<"}">>, <<"/">>, <<"(", "x", ")">>, <<" ">>}
    ELSE {<<"x">>, <<".">>, <<"!">>, <<"=", "=">>, <<">", "=">>, <<">">>, <<"=">>,
          <<"1">>, <<"-">>, <<"\"", "x", "\"">>, <<"\"">>, <<" ">>}

\* the texts of at most n tokens
RECURSIVE Concats(_, _)
Longer(shorter, tokens) == shorter \cup {t \o k : t \in shorter, k \in tokens}
Concats(tokens, n) == IF n = 0 THEN {<<>>} ELSE Longer(Concats(tokens, n - 1), tokens)

ParseTexts(rule, n) == Concats(Tokens(rule), n)

\* cls().parse(text, full=full)
parse(rule, text, full) ==
    IF rule = "Node" THEN Node_parse(text, full)
    ELSE IF rule = "Path" THEN Path_parse(text, full, "/", "Node")
    ELSE IF rule = "NodeWithPredicates" THEN NodeWithPredicates_parse(text, full)
    ELSE IF rule = "NodeGroup" THEN NodeGroup_parse(text, full)
    ELSE IF rule = "YPath" THEN YPath_parse(text, full)
    ELSE IF rule = "Predicate" THEN Predicate_parse(NewPredicate("Predicate"), text, full)
    ELSE IF rule = "HasAttrPredicate" THEN HasAttr_parse(NewPredicate("HasAttr"), text, full)
    ELSE MatchAttr_parse(NewPredicate("MatchAttr"), text, full)

ParseInit ==
    /\ prule \in Rules
    /\ ptext \in ParseTexts(prule, MaxTokens)
    /\ pfull \in BOOLEAN
    /\ pres = NotParsed

\* one call of cls().parse on a new object of the class prule names
Parse ==
    /\ pres = NotParsed
    /\ pres' = parse(prule, ptext, pfull)
    /\ UNCHANGED <<ptext, prule, pfull>>
    /\ UNCHANGED <<readerVars, codecVars, evalVars, mainVars>>

ParseNext == Parse

\* what a syntax error is said to carry: the rule, a problem description,
\* and an offset into its text
carries_diagnostics(e) ==
    /\ e.token_type \in Rules \ {"YPath"}
    /\ e.problem # ""
    /\ e.position \in 0..Len(e.text)

\* C14: every syntax error a parse raises carries the failing rule, the
\* offending text, a problem description and the character offset of the
\* failure
C14_PositionalDiagnostics ==
    pres.form = "raise" => carries_diagnostics(pres)

\* C15: for every rule, parse(text, full=True) that returns has consumed
\* the whole text and returns len(text), and parse(text, full=False)
\* returns a length that is at most len(text)
C15_FullMatch ==
    pres.form = "ok" =>
        /\ pres.pos \in 0..Len(ptext)
        /\ pfull => pres.pos = Len(ptext)

\* the longest operator the text begins with, "" when there is none
longest_operator(text_) ==
    IF \E i \in 1..Len(OperatorOrder) : startswith(text_, OperatorChars(OperatorOrder[i]))
    THEN OperatorOrder[CHOOSE i \in 1..Len(OperatorOrder) :
            /\ startswith(text_, OperatorChars(OperatorOrder[i]))
            /\ \A j \in 1..Len(OperatorOrder) :
                   startswith(text_, OperatorChars(OperatorOrder[j]))
                       => Len(OperatorChars(OperatorOrder[j]))
                              <= Len(OperatorChars(OperatorOrder[i]))]
    ELSE ""

\* the text begins with a literal: a number with or without sign, a quoted
\* text, or a word
literal_head(text_) ==
    \/ integer_len(text_) > 0
    \/ text_ # <<>> /\ Head(text_) \in {"\"", "'"}
           /\ quote_end(text_, 2, FALSE, Head(text_)) # 0
    \/ span(text_, Word) > 0

\* what follows the attribute path, and what follows the operator
after_path(text, r) == IF r.form = "ok" THEN lstrip(Drop(text, r.pos)) ELSE <<>>
after_operator(text_) ==
    lstrip(Drop(text_, Len(OperatorChars(longest_operator(text_)))))

\* an attribute path, then an operator, then a literal
compare_text(text) ==
    /\ longest_operator(after_path(text, Path_parse(text, FALSE, ".", "Node"))) # ""
    /\ literal_head(after_operator(after_path(text, Path_parse(text, FALSE, ".", "Node"))))

\* C16: Predicate.parse makes a text with an operator and a literal after
\* its attribute path a MatchAttrPredicate with the longest matching
\* operator, a HasAttrPredicate it returns carries no operator or target
\* of the failed MatchAttrPredicate attempt, and it raises a syntax error
\* of the Predicate rule where both fail
C16_KindSelection ==
    (prule = "Predicate" /\ pres.form # "none") =>
        /\ compare_text(ptext) =>
               /\ pres.form = "ok"
               /\ pres.obj.cls = "MatchAttr"
               /\ pres.obj.operator
                      = longest_operator(after_path(ptext, Path_parse(ptext, FALSE, ".", "Node")))
        /\ (pres.form = "ok" /\ pres.obj.cls = "HasAttr") =>
               pres.obj.operator = "" /\ pres.obj.target = NullV
        /\ pres.form = "raise" => pres.token_type = "Predicate"

-----------------------------------------------------------------------------
(* Specifications *)

EvalIdle ==
    /\ edoc = NullV
    /\ equery = <<>>
    /\ ewith = FALSE
    /\ eres = Pending

MainIdle ==
    /\ blocks = <<>>
    /\ bidx = 0
    /\ mpath = <<>>
    /\ delimiter = <<>>
    /\ written = <<>>
    /\ mstate = "idle"

ParseIdle ==
    /\ ptext = <<>>
    /\ prule = ""
    /\ pfull = FALSE
    /\ pres = NotParsed

ReaderStart == ReaderInit /\ CodecIdle /\ EvalIdle /\ MainIdle /\ ParseIdle
SpecReader == ReaderStart /\ [][ReaderNext]_vars

CodecStart == CodecInit /\ ReaderIdle /\ EvalIdle /\ MainIdle /\ ParseIdle
SpecCodec == CodecStart /\ [][CodecNext]_vars

EvalStart == EvalInit /\ ReaderIdle /\ CodecIdle /\ MainIdle /\ ParseIdle
SpecEval == EvalStart /\ [][EvalNext]_vars

MainStart == MainInit /\ ReaderIdle /\ CodecIdle /\ EvalIdle /\ ParseIdle
Spec == MainStart /\ [][MainNext]_vars

ParseStart == ParseInit /\ ReaderIdle /\ CodecIdle /\ EvalIdle /\ MainIdle
SpecParse == ParseStart /\ [][ParseNext]_vars

=============================================================================
